---- MODULE Spec2Model ----
(***************************************************************************)
(* Model of the flash-loan SDK: the fee computation of lib.rs and its      *)
(* entry points over RPC, the instruction builders of instruction.rs and   *)
(* the Reserve record codec of types.rs.                                   *)
(*                                                                         *)
(* TLC's integers are 32 bits wide.  The fee arithmetic is therefore       *)
(* modelled at a reduced width: a u64 is U64Bits bits wide, the fixed      *)
(* point scale WAD is 10^2 instead of 10^18 and the Decimal backing        *)
(* integer is three u64 words wide (U192 in the program).  The byte-level  *)
(* codecs keep the program's widths: a u64 is there a tuple of four        *)
(* 16-bit limbs, least significant first.                                  *)
(***************************************************************************)
EXTENDS Integers, Naturals, Sequences, FiniteSets, TLC

VARIABLES
    reserve, last, prev,            \* flash_loan_fee: the reserve and the last two calls
    ix,                             \* the instruction builders: the last call
    raw_data, decoded, record, dst, \* the Reserve codec: the slice decoded, the result,
                                    \* the Reserve held, the last encoding
    calls                           \* the entry points over RPC: the last two calls

feeVars == <<reserve, last, prev>>
ixVars == <<ix>>
codecVars == <<raw_data, decoded, record, dst>>
rpcVars == <<calls>>
vars == <<reserve, last, prev, ix, raw_data, decoded, record, dst, calls>>

(***************************************************************************)
(* Bounds of the model.                                                    *)
(***************************************************************************)
U64Bits == 9
MaxAmount == 12
MaxFeeWad == 110
MaxPct == 1
MaxExtra == 2
MaxPad == 1

U64_MAX == 2^U64Bits - 1
U8_MAX == 255

(***************************************************************************)
(* Results: Ok(val) or Err(err).                                           *)
(***************************************************************************)
Ok(v) == [ok |-> TRUE, val |-> v, err |-> "none"]
Err(e) == [ok |-> FALSE, val |-> 0, err |-> e]
NoCall == [called |-> FALSE, amount |-> 0, result |-> Err("not called")]

(***************************************************************************)
(* crate::math (Decimal, Rate, TryMul): scaled integers, scale WAD.        *)
(***************************************************************************)
WAD == 100
HALF_WAD == WAD \div 2
PERCENT_SCALER == WAD \div 100
DecimalMax == 2^(3 * U64Bits) - 1

Rate_zero == 0
Decimal_zero == 0
Rate_from_scaled_val(scaled_val) == scaled_val
Rate_from_percent(percent) == percent * PERCENT_SCALER
Decimal_from(n) == n * WAD

\* (self * rate) / WAD on a wider intermediate; the quotient must fit.
Decimal_try_mul(d, rate) ==
    LET q == (d * rate) \div WAD
    IN  IF q > DecimalMax THEN Err("MathOverflow") ELSE Ok(q)

Decimal_max(a, b) == IF a >= b THEN a ELSE b

\* Round half up to a whole number of units; the result must fit a u64.
Decimal_try_round_u64(d) ==
    LET r == (d + HALF_WAD) \div WAD
    IN  IF r > U64_MAX THEN Err("MathOverflow") ELSE Ok(r)

(***************************************************************************)
(* lib.rs: flash_loan_fee.                                                 *)
(***************************************************************************)
\* The minimum fee taken as 1 whatever the texture fee.
minimum_fee_one(texture_fee_rate) == 1

minimum_fee(texture_fee_rate) ==
    IF texture_fee_rate > Rate_zero THEN 2 ELSE 1

\* The fee narrowed to half the width of a u64 before it is returned.
flash_loan_fee_narrowed(r, amount) ==
    LET borrow_fee_rate == Rate_from_scaled_val(r.config.fees.flash_loan_fee_wad)
        texture_fee_rate == Rate_from_percent(r.config.fees.texture_fee_percentage)
        borrow_amount == Decimal_from(amount)
        borrow_fee_amount == Decimal_try_mul(borrow_amount, borrow_fee_rate)
        borrow_fee_decimal ==
            Decimal_max(borrow_fee_amount.val, Decimal_from(minimum_fee(texture_fee_rate)))
        borrow_fee == Decimal_try_round_u64(borrow_fee_decimal)
    IN  IF borrow_fee_rate > Rate_zero /\ borrow_amount > Decimal_zero
        THEN IF ~borrow_fee_amount.ok THEN Err("MathOverflow")
             ELSE IF borrow_fee_decimal >= borrow_amount THEN Err("BorrowTooSmall")
             ELSE IF ~borrow_fee.ok THEN Err("MathOverflow")
             ELSE Ok(borrow_fee.val % 2^(U64Bits \div 2))
        ELSE Ok(0)

\* The fee guard with || in place of &&.
flash_loan_fee_either(r, amount) ==
    LET borrow_fee_rate == Rate_from_scaled_val(r.config.fees.flash_loan_fee_wad)
        texture_fee_rate == Rate_from_percent(r.config.fees.texture_fee_percentage)
        borrow_amount == Decimal_from(amount)
        borrow_fee_amount == Decimal_try_mul(borrow_amount, borrow_fee_rate)
        borrow_fee_decimal ==
            Decimal_max(borrow_fee_amount.val, Decimal_from(minimum_fee(texture_fee_rate)))
        borrow_fee == Decimal_try_round_u64(borrow_fee_decimal)
    IN  IF borrow_fee_rate > Rate_zero \/ borrow_amount > Decimal_zero
        THEN IF ~borrow_fee_amount.ok THEN Err("MathOverflow")
             ELSE IF borrow_fee_decimal >= borrow_amount THEN Err("BorrowTooSmall")
             ELSE IF ~borrow_fee.ok THEN Err("MathOverflow")
             ELSE Ok(borrow_fee.val)
        ELSE Ok(0)

flash_loan_fee(r, amount) ==
    LET borrow_fee_rate == Rate_from_scaled_val(r.config.fees.flash_loan_fee_wad)
        texture_fee_rate == Rate_from_percent(r.config.fees.texture_fee_percentage)
        borrow_amount == Decimal_from(amount)
        borrow_fee_amount == Decimal_try_mul(borrow_amount, borrow_fee_rate)
        borrow_fee_decimal ==
            Decimal_max(borrow_fee_amount.val, Decimal_from(minimum_fee(texture_fee_rate)))
        borrow_fee == Decimal_try_round_u64(borrow_fee_decimal)
    IN  IF borrow_fee_rate > Rate_zero /\ borrow_amount > Decimal_zero
        THEN IF ~borrow_fee_amount.ok THEN Err("MathOverflow")
             ELSE IF borrow_fee_decimal >= borrow_amount THEN Err("BorrowTooSmall")
             ELSE IF ~borrow_fee.ok THEN Err("MathOverflow")
             ELSE Ok(borrow_fee.val)
        ELSE Ok(0)

available_liquidity(r) == r.liquidity.available_amount


(***************************************************************************)
(* instruction.rs.  A u64 is a tuple of four 16-bit limbs, least           *)
(* significant first; a byte is a number in 0 .. 255.                      *)
(***************************************************************************)
LimbBase == 256 * 256
U64FromInt(n) == <<n % LimbBase, n \div LimbBase, 0, 0>>

\* u64::to_le_bytes: the 8 bytes of x, least significant first.
u64_to_le_bytes(x) ==
    <<x[1] % 256, x[1] \div 256, x[2] % 256, x[2] \div 256,
      x[3] % 256, x[3] \div 256, x[4] % 256, x[4] \div 256>>

u8_to_le_bytes(b) == <<b>>

\* The amount written most significant byte first.
pack_be(self) ==
    LET Rev(b) == [i \in 1 .. Len(b) |-> b[Len(b) + 1 - i]]
    IN  CASE self.variant = "FlashLoan" ->
                <<5>> \o Rev(u64_to_le_bytes(self.amount))
                      \o u8_to_le_bytes(self.receive_flash_loan_instruction_tag)
          [] self.variant = "FlashBorrow" -> <<7>> \o Rev(u64_to_le_bytes(self.amount))
          [] self.variant = "FlashRepay" -> <<8>> \o Rev(u64_to_le_bytes(self.amount))

\* FlashLoanInstruction::pack
pack(self) ==
    CASE self.variant = "FlashLoan" ->
            <<5>> \o u64_to_le_bytes(self.amount)
                  \o u8_to_le_bytes(self.receive_flash_loan_instruction_tag)
      [] self.variant = "FlashBorrow" -> <<7>> \o u64_to_le_bytes(self.amount)
      [] self.variant = "FlashRepay" -> <<8>> \o u64_to_le_bytes(self.amount)

FlashLoan(amount, tag) ==
    [variant |-> "FlashLoan", amount |-> amount, receive_flash_loan_instruction_tag |-> tag]
FlashBorrow(amount) ==
    [variant |-> "FlashBorrow", amount |-> amount, receive_flash_loan_instruction_tag |-> 0]
FlashRepay(amount) ==
    [variant |-> "FlashRepay", amount |-> amount, receive_flash_loan_instruction_tag |-> 0]

AccountMeta_new(pubkey, is_signer) ==
    [pubkey |-> pubkey, is_signer |-> is_signer, is_writable |-> TRUE]
AccountMeta_new_readonly(pubkey, is_signer) ==
    [pubkey |-> pubkey, is_signer |-> is_signer, is_writable |-> FALSE]

\* Pubkey::find_program_address: the address derived from the seed and the
\* program id (the bump seed is dropped by the callers).
find_program_address(seed, program_id) == <<"pda", seed, program_id>>
spl_token_id == <<"spl_token::id()">>
sysvar_instructions_id == <<"sysvar::instructions::id()">>

\* flash_loan with the reserve and the fee receiver in flash_repay's order.
flash_loan_repay_order(program_id, amount, receive_flash_loan_instruction_tag, source_liquidity_pubkey, destination_liquidity_pubkey, reserve_pubkey, reserve_liquidity_fee_receiver_pubkey, lending_market_pubkey, flash_loan_receiver_program_id, flash_loan_receiver_program_accounts) ==
    LET lending_market_authority_pubkey ==
            find_program_address(lending_market_pubkey, program_id)
        accounts ==
            << AccountMeta_new(source_liquidity_pubkey, FALSE),
               AccountMeta_new(destination_liquidity_pubkey, FALSE),
               AccountMeta_new(reserve_liquidity_fee_receiver_pubkey, FALSE),
               AccountMeta_new(reserve_pubkey, FALSE),
               AccountMeta_new_readonly(lending_market_pubkey, FALSE),
               AccountMeta_new_readonly(lending_market_authority_pubkey, FALSE),
               AccountMeta_new_readonly(spl_token_id, FALSE),
               AccountMeta_new_readonly(flash_loan_receiver_program_id, FALSE) >>
    IN  [program_id |-> program_id,
         accounts |-> accounts \o flash_loan_receiver_program_accounts,
         data |-> pack(FlashLoan(amount, receive_flash_loan_instruction_tag))]

flash_loan(program_id, amount, receive_flash_loan_instruction_tag, source_liquidity_pubkey, destination_liquidity_pubkey, reserve_pubkey, reserve_liquidity_fee_receiver_pubkey, lending_market_pubkey, flash_loan_receiver_program_id, flash_loan_receiver_program_accounts) ==
    LET lending_market_authority_pubkey ==
            find_program_address(lending_market_pubkey, program_id)
        accounts ==
            << AccountMeta_new(source_liquidity_pubkey, FALSE),
               AccountMeta_new(destination_liquidity_pubkey, FALSE),
               AccountMeta_new(reserve_pubkey, FALSE),
               AccountMeta_new(reserve_liquidity_fee_receiver_pubkey, FALSE),
               AccountMeta_new_readonly(lending_market_pubkey, FALSE),
               AccountMeta_new_readonly(lending_market_authority_pubkey, FALSE),
               AccountMeta_new_readonly(spl_token_id, FALSE),
               AccountMeta_new_readonly(flash_loan_receiver_program_id, FALSE) >>
    IN  [program_id |-> program_id,
         accounts |-> accounts \o flash_loan_receiver_program_accounts,
         data |-> pack(FlashLoan(amount, receive_flash_loan_instruction_tag))]

flash_borrow(program_id, amount, source_liquidity_pubkey, destination_liquidity_pubkey, reserve_pubkey, lending_market_pubkey) ==
    LET lending_market_authority_pubkey ==
            find_program_address(lending_market_pubkey, program_id)
    IN  [program_id |-> program_id,
         accounts |->
            << AccountMeta_new(source_liquidity_pubkey, FALSE),
               AccountMeta_new(destination_liquidity_pubkey, FALSE),
               AccountMeta_new(reserve_pubkey, FALSE),
               AccountMeta_new_readonly(lending_market_pubkey, FALSE),
               AccountMeta_new_readonly(lending_market_authority_pubkey, FALSE),
               AccountMeta_new_readonly(sysvar_instructions_id, FALSE),
               AccountMeta_new_readonly(spl_token_id, FALSE) >>,
         data |-> pack(FlashBorrow(amount))]

flash_repay(program_id, amount, source_liquidity_pubkey, destination_liquidity_pubkey, reserve_liquidity_fee_receiver_pubkey, reserve_pubkey, lending_market_pubkey, user_transfer_authority_pubkey) ==
    [program_id |-> program_id,
     accounts |->
        << AccountMeta_new(source_liquidity_pubkey, FALSE),
           AccountMeta_new(destination_liquidity_pubkey, FALSE),
           AccountMeta_new(reserve_liquidity_fee_receiver_pubkey, FALSE),
           AccountMeta_new(reserve_pubkey, FALSE),
           AccountMeta_new_readonly(lending_market_pubkey, FALSE),
           AccountMeta_new_readonly(user_transfer_authority_pubkey, TRUE),
           AccountMeta_new_readonly(sysvar_instructions_id, FALSE),
           AccountMeta_new_readonly(spl_token_id, FALSE) >>,
     data |-> pack(FlashRepay(amount))]

(***************************************************************************)
(* types.rs.  A Pubkey is its 32 bytes, a [u8; n] a sequence of n bytes, a  *)
(* u64 four 16-bit limbs.  A byte slice is its bytes and the address of its *)
(* first byte (modulo a power of two large enough for every alignment).     *)
(***************************************************************************)
PUBKEY_BYTES == 32
Fill(n, b) == [i \in 1 .. n |-> b]
Slice(b, off, n) == SubSeq(b, off + 1, off + n)

\* The u64 stored at 8 bytes of memory (little-endian target).
u64_from_le_bytes(b) ==
    <<b[1] + 256 * b[2], b[3] + 256 * b[4], b[5] + 256 * b[6], b[7] + 256 * b[8]>>

\* #[repr(C)] layout: the fields in declaration order; the explicit padding
\* fields leave no implicit padding.
size_of_ReserveLiquidity == PUBKEY_BYTES + 8 + PUBKEY_BYTES + 8
size_of_ReserveLpTokens == PUBKEY_BYTES + 8 + PUBKEY_BYTES
size_of_ReserveFees == 8 + 1 + 7
size_of_ReserveConfig == size_of_ReserveFees + 8 + PUBKEY_BYTES + 32 + 32
size_of_Reserve ==
    1 + 7 + 8 + PUBKEY_BYTES + size_of_ReserveLiquidity + size_of_ReserveLpTokens
      + size_of_ReserveConfig + 5 * 8
align_of_Reserve == 8
RESERVE_LEN == size_of_Reserve

ReserveLiquidity_bytes(l) ==
    l.mint_pubkey \o u64_to_le_bytes(l.mint_decimals) \o l.supply_pubkey
                  \o u64_to_le_bytes(l.available_amount)

ReserveLpTokens_bytes(l) ==
    l.mint_pubkey \o u64_to_le_bytes(l.mint_total_supply) \o l.supply_pubkey

ReserveFees_bytes(f) ==
    u64_to_le_bytes(f.flash_loan_fee_wad) \o <<f.texture_fee_percentage>> \o f._padding

ReserveConfig_bytes(c) ==
    ReserveFees_bytes(c.fees) \o u64_to_le_bytes(c.deposit_limit) \o c.fee_receiver
                              \o c._future_padding1 \o c._future_padding2

\* The encoder writing zeroes over the padding fields.
Reserve_bytes_zeroed(r) ==
    <<r.version>> \o Fill(7, 0) \o u64_to_le_bytes(r.last_update) \o r.lending_market
        \o ReserveLiquidity_bytes(r.liquidity)
        \o ReserveLpTokens_bytes(r.lp_tokens_info)
        \o ReserveFees_bytes([r.config.fees EXCEPT !._padding = Fill(7, 0)])
        \o u64_to_le_bytes(r.config.deposit_limit) \o r.config.fee_receiver
        \o Fill(32 + 32, 0)
        \o Fill(5 * 8, 0)

\* The memory image of a Reserve.
Reserve_bytes(r) ==
    <<r.version>> \o r._padding \o u64_to_le_bytes(r.last_update) \o r.lending_market
        \o ReserveLiquidity_bytes(r.liquidity)
        \o ReserveLpTokens_bytes(r.lp_tokens_info)
        \o ReserveConfig_bytes(r.config)
        \o u64_to_le_bytes(r._future_padding[1]) \o u64_to_le_bytes(r._future_padding[2])
        \o u64_to_le_bytes(r._future_padding[3]) \o u64_to_le_bytes(r._future_padding[4])
        \o u64_to_le_bytes(r._future_padding[5])

ReserveLiquidity_from_bytes(b) ==
    [mint_pubkey |-> Slice(b, 0, PUBKEY_BYTES),
     mint_decimals |-> u64_from_le_bytes(Slice(b, PUBKEY_BYTES, 8)),
     supply_pubkey |-> Slice(b, PUBKEY_BYTES + 8, PUBKEY_BYTES),
     available_amount |-> u64_from_le_bytes(Slice(b, 2 * PUBKEY_BYTES + 8, 8))]

ReserveLpTokens_from_bytes(b) ==
    [mint_pubkey |-> Slice(b, 0, PUBKEY_BYTES),
     mint_total_supply |-> u64_from_le_bytes(Slice(b, PUBKEY_BYTES, 8)),
     supply_pubkey |-> Slice(b, PUBKEY_BYTES + 8, PUBKEY_BYTES)]

ReserveFees_from_bytes(b) ==
    [flash_loan_fee_wad |-> u64_from_le_bytes(Slice(b, 0, 8)),
     texture_fee_percentage |-> b[9],
     _padding |-> Slice(b, 9, 7)]

ReserveConfig_from_bytes(b) ==
    [fees |-> ReserveFees_from_bytes(Slice(b, 0, size_of_ReserveFees)),
     deposit_limit |-> u64_from_le_bytes(Slice(b, size_of_ReserveFees, 8)),
     fee_receiver |-> Slice(b, size_of_ReserveFees + 8, PUBKEY_BYTES),
     _future_padding1 |-> Slice(b, size_of_ReserveFees + 8 + PUBKEY_BYTES, 32),
     _future_padding2 |-> Slice(b, size_of_ReserveFees + 8 + PUBKEY_BYTES + 32, 32)]

\* The Reserve whose memory image is b.
Reserve_from_bytes(b) ==
    LET liquidity_at == 1 + 7 + 8 + PUBKEY_BYTES
        lp_at == liquidity_at + size_of_ReserveLiquidity
        config_at == lp_at + size_of_ReserveLpTokens
        future_at == config_at + size_of_ReserveConfig
    IN  [version |-> b[1],
         _padding |-> Slice(b, 1, 7),
         last_update |-> u64_from_le_bytes(Slice(b, 8, 8)),
         lending_market |-> Slice(b, 16, PUBKEY_BYTES),
         liquidity |-> ReserveLiquidity_from_bytes(Slice(b, liquidity_at, size_of_ReserveLiquidity)),
         lp_tokens_info |-> ReserveLpTokens_from_bytes(Slice(b, lp_at, size_of_ReserveLpTokens)),
         config |-> ReserveConfig_from_bytes(Slice(b, config_at, size_of_ReserveConfig)),
         _future_padding |->
            [i \in 1 .. 5 |-> u64_from_le_bytes(Slice(b, future_at + 8 * (i - 1), 8))]]

\* #[derive(Default)]: every field zero.
Reserve_default == Reserve_from_bytes(Fill(RESERVE_LEN, 0))

is_initialized(self) == self.version # 0

\* bytemuck::try_from_bytes::<Reserve> accepting any slice long enough.
try_from_bytes_prefix(s) ==
    IF Len(s.bytes) < size_of_Reserve
    THEN Err("SizeMismatch")
    ELSE IF s.addr % align_of_Reserve # 0
    THEN Err("TargetAlignmentGreaterAndInputNotAligned")
    ELSE Ok(Reserve_from_bytes(s.bytes))

\* bytemuck::try_from_bytes::<Reserve> and try_from_bytes_mut::<Reserve>: the
\* slice must have the size of a Reserve and start at a multiple of its
\* alignment; the reference then reads the Reserve stored there.
try_from_bytes(s) ==
    IF Len(s.bytes) # size_of_Reserve
    THEN Err("SizeMismatch")
    ELSE IF s.addr % align_of_Reserve # 0
    THEN Err("TargetAlignmentGreaterAndInputNotAligned")
    ELSE Ok(Reserve_from_bytes(s.bytes))

\* Pack::pack_into_slice: the slice after the call, or a panic.
pack_into_slice(self, output) ==
    IF try_from_bytes(output).ok
    THEN [panicked |-> FALSE, output |-> [output EXCEPT !.bytes = Reserve_bytes(self)]]
    ELSE [panicked |-> TRUE, output |-> output]

\* Pack::unpack_from_slice
unpack_from_slice(input) ==
    LET r == try_from_bytes(input)
    IN  IF r.ok THEN Ok(r.val) ELSE Err("InvalidAccountData")

\* Pack::unpack_unchecked and Pack::unpack, the provided methods of
\* solana_program's Pack trait that get_reserve calls.
Pack_unpack_unchecked(input) ==
    IF Len(input.bytes) # RESERVE_LEN
    THEN Err("InvalidAccountData")
    ELSE unpack_from_slice(input)

Pack_unpack(input) ==
    LET value == Pack_unpack_unchecked(input)
    IN  IF ~value.ok THEN value
        ELSE IF is_initialized(value.val) THEN value
        ELSE Err("UninitializedAccount")

\* get_reserve decoding without the initialization check.
get_reserve_unchecked(account_data) ==
    IF ~account_data.ok THEN Err("RpcError")
    ELSE LET r == Pack_unpack_unchecked(account_data.val)
         IN  IF r.ok THEN r ELSE Err("DeserializationError")

\* lib.rs: get_reserve, on the outcome of RpcClient::get_account_data.
get_reserve(account_data) ==
    IF ~account_data.ok THEN Err("RpcError")
    ELSE LET r == Pack_unpack(account_data.val)
         IN  IF r.ok THEN r ELSE Err("DeserializationError")

(***************************************************************************)
(* The codec as a state machine.  Init draws the input slice: one of three *)
(* base images (all zero, a pattern without a zero byte, an initialized    *)
(* Reserve with zero padding), with at most one byte changed, cut or       *)
(* extended to a length around RESERVE_LEN, at an aligned or a misaligned  *)
(* address.  The actions decode it (unpack_from_slice, get_reserve) and    *)
(* encode the Reserve held (pack_into_slice) into a slice of their choice. *)
(* A panic ends the behaviour.                                             *)
(***************************************************************************)
Pattern == [i \in 1 .. RESERVE_LEN |-> ((i * 37) % 255) + 1]

SampleReserve ==
    [version |-> 1,
     _padding |-> Fill(7, 0),
     last_update |-> U64FromInt(123456789),
     lending_market |-> Fill(PUBKEY_BYTES, 17),
     liquidity |-> [mint_pubkey |-> Fill(PUBKEY_BYTES, 34),
                    mint_decimals |-> U64FromInt(9),
                    supply_pubkey |-> Fill(PUBKEY_BYTES, 51),
                    available_amount |-> <<4660, 22136, 39612, 57072>>],
     lp_tokens_info |-> [mint_pubkey |-> Fill(PUBKEY_BYTES, 68),
                         mint_total_supply |-> U64FromInt(1000000000),
                         supply_pubkey |-> Fill(PUBKEY_BYTES, 85)],
     config |-> [fees |-> [flash_loan_fee_wad |-> <<32768, 61011, 43131, 10>>,
                           texture_fee_percentage |-> 20,
                           _padding |-> Fill(7, 0)],
                 deposit_limit |-> <<LimbBase - 1, LimbBase - 1, LimbBase - 1, LimbBase - 1>>,
                 fee_receiver |-> Fill(PUBKEY_BYTES, 102),
                 _future_padding1 |-> Fill(32, 0),
                 _future_padding2 |-> Fill(32, 0)],
     _future_padding |-> [i \in 1 .. 5 |-> U64FromInt(0)]]

BaseImages == {Fill(RESERVE_LEN, 0), Pattern, Reserve_bytes(SampleReserve)}

\* The first and the last byte of the fields of a Reserve (offsets from 0).
PokeOffsets ==
    {0, 1, 7, 8, 15, 16, 47, 48, 79, 80, 87, 88, 119, 120, 127, 128, 159, 160, 167,
     168, 199, 200, 207, 208, 209, 215, 216, 223, 224, 255, 256, 287, 288, 319, 320, 359}
PokeValues == {0, U8_MAX}

Images ==
    BaseImages \cup
        { [b EXCEPT ![off + 1] = v] : b \in BaseImages, off \in PokeOffsets, v \in PokeValues }

Resized(b, n) ==
    IF n <= Len(b) THEN SubSeq(b, 1, n) ELSE b \o Fill(n - Len(b), 170)

SliceLens == {0} \cup ((RESERVE_LEN - MaxPad) .. (RESERVE_LEN + MaxPad))
Addresses == {0, 4}

Inputs ==
    { [bytes |-> Resized(b, n), addr |-> a] : b \in Images, n \in SliceLens, a \in Addresses }

NoDecode == [via |-> "none", fetched |-> FALSE, result |-> Err("not called")]
NoOutput == [state |-> "none", self |-> Reserve_default, slice |-> [bytes |-> <<>>, addr |-> 0]]

CodecIdle ==
    /\ raw_data = [bytes |-> <<>>, addr |-> 0]
    /\ decoded = NoDecode
    /\ record = Reserve_default
    /\ dst = NoOutput

\* The entry points over RPC not in use: no call made.
RpcIdle == calls = <<>>

(***************************************************************************)
(* The fee computation as a state machine: a reserve's fee configuration   *)
(* is fixed by Init and flash_loan_fee is called on it with one amount     *)
(* after another; the last two calls are kept.                             *)
(***************************************************************************)
FeeWads == (0 .. MaxFeeWad) \cup {U64_MAX - 1, U64_MAX}
Percentages == (0 .. MaxPct) \cup {U8_MAX}
BorrowAmounts == (0 .. MaxAmount) \cup {U64_MAX - 1, U64_MAX}

FeeReserves ==
    { [config |-> [fees |-> [flash_loan_fee_wad |-> w, texture_fee_percentage |-> p]],
       liquidity |-> [available_amount |-> U64_MAX]] :
        w \in FeeWads, p \in Percentages }

\* flash_loan_fee not in use: a reserve that charges nothing, no call made.
FeeIdle ==
    /\ reserve = [config |-> [fees |-> [flash_loan_fee_wad |-> 0, texture_fee_percentage |-> 0]],
                  liquidity |-> [available_amount |-> U64_MAX]]
    /\ last = NoCall
    /\ prev = NoCall

(***************************************************************************)
(* The builders as a state machine: one builder is called on arguments of  *)
(* its choice; the arguments and the instruction built are kept.  A        *)
(* builder keeps no state between calls, so a behaviour is one call.       *)
(***************************************************************************)
\* A Pubkey is a one-element tuple naming it; a derived address is a triple.
Pubkeys == {<<"K1">>, <<"K2">>}
IxAmounts ==
    { U64FromInt(0), U64FromInt(1000000000),
      <<513, 1027, 1541, 2055>>,
      <<LimbBase - 1, LimbBase - 1, LimbBase - 1, LimbBase - 1>> }
Tags == {0, U8_MAX}
ExtraMetas ==
    [pubkey : Pubkeys, is_signer : BOOLEAN, is_writable : BOOLEAN]
ExtraAccounts ==
    UNION { [1 .. n -> ExtraMetas] : n \in 0 .. MaxExtra }

NoArgs ==
    [program_id |-> <<"-">>, amount |-> U64FromInt(0), tag |-> 0, source |-> <<"-">>,
     destination |-> <<"-">>, reserve |-> <<"-">>, fee_receiver |-> <<"-">>,
     lending_market |-> <<"-">>, authority |-> <<"-">>, receiver_program |-> <<"-">>,
     receiver_accounts |-> <<>>]
NoIx ==
    [built |-> "none", args |-> NoArgs,
     out |-> [program_id |-> <<"-">>, accounts |-> <<>>, data |-> <<>>]]

IxIdle == ix = NoIx

BuildFlashBorrow(program_id, amount, source, destination, rsv, market) ==
    /\ ix.built = "none"
    /\ ix' = [built |-> "flash_borrow",
              args |-> [NoArgs EXCEPT !.program_id = program_id, !.amount = amount,
                            !.source = source, !.destination = destination,
                            !.reserve = rsv, !.lending_market = market],
              out |-> flash_borrow(program_id, amount, source, destination, rsv, market)]
    /\ UNCHANGED <<feeVars, codecVars, rpcVars>>

BuildFlashRepay(program_id, amount, source, destination, receiver, rsv, market, authority) ==
    /\ ix.built = "none"
    /\ ix' = [built |-> "flash_repay",
              args |-> [NoArgs EXCEPT !.program_id = program_id, !.amount = amount,
                            !.source = source, !.destination = destination,
                            !.fee_receiver = receiver, !.reserve = rsv,
                            !.lending_market = market, !.authority = authority],
              out |-> flash_repay(program_id, amount, source, destination, receiver,
                                  rsv, market, authority)]
    /\ UNCHANGED <<feeVars, codecVars, rpcVars>>

BuildFlashLoan(program_id, amount, tag, source, destination, rsv, receiver, market, receiver_program, receiver_accounts) ==
    /\ ix.built = "none"
    /\ ix' = [built |-> "flash_loan",
              args |-> [NoArgs EXCEPT !.program_id = program_id, !.amount = amount,
                            !.tag = tag, !.source = source, !.destination = destination,
                            !.reserve = rsv, !.fee_receiver = receiver,
                            !.lending_market = market,
                            !.receiver_program = receiver_program,
                            !.receiver_accounts = receiver_accounts],
              out |-> flash_loan(program_id, amount, tag, source, destination, rsv,
                                 receiver, market, receiver_program, receiver_accounts)]
    /\ UNCHANGED <<feeVars, codecVars, rpcVars>>

InitIx ==
    /\ FeeIdle
    /\ ix = NoIx
    /\ CodecIdle
    /\ RpcIdle

CallFlashBorrow ==
    /\ ix.built = "none"
    /\ \E program_id, source, destination, rsv, market \in Pubkeys, amount \in IxAmounts :
          BuildFlashBorrow(program_id, amount, source, destination, rsv, market)

CallFlashRepay ==
    /\ ix.built = "none"
    /\ \E program_id, source, destination, receiver, rsv, market, authority \in Pubkeys,
          amount \in IxAmounts :
          BuildFlashRepay(program_id, amount, source, destination, receiver, rsv,
                          market, authority)

CallFlashLoan ==
    /\ ix.built = "none"
    /\ \E program_id, source, destination, rsv, receiver, market, receiver_program \in Pubkeys,
          amount \in IxAmounts, tag \in Tags, receiver_accounts \in ExtraAccounts :
          BuildFlashLoan(program_id, amount, tag, source, destination, rsv, receiver,
                         market, receiver_program, receiver_accounts)

NextIx == CallFlashBorrow \/ CallFlashRepay \/ CallFlashLoan

SpecIx == InitIx /\ [][NextIx]_vars

\* flash_loan_fee called on one reserve with one amount after another.
InitFee ==
    /\ reserve \in FeeReserves
    /\ last = NoCall
    /\ prev = NoCall
    /\ IxIdle
    /\ CodecIdle
    /\ RpcIdle

FlashLoanFee(amount) ==
    /\ prev' = last
    /\ last' = [called |-> TRUE, amount |-> amount, result |-> flash_loan_fee(reserve, amount)]
    /\ UNCHANGED <<reserve, ixVars, codecVars, rpcVars>>

NextFee == \E amount \in BorrowAmounts : FlashLoanFee(amount)

SpecFee == InitFee /\ [][NextFee]_vars

\* The codec: decode the input slice, encode the Reserve held.
InitCodec ==
    /\ FeeIdle
    /\ IxIdle
    /\ raw_data \in Inputs
    /\ decoded = NoDecode
    /\ record = Reserve_default
    /\ dst = NoOutput
    /\ RpcIdle

UnpackFromSlice ==
    /\ dst.state # "panicked"
    /\ decoded' = [via |-> "unpack_from_slice", fetched |-> TRUE,
                   result |-> unpack_from_slice(raw_data)]
    /\ record' = IF decoded'.result.ok THEN decoded'.result.val ELSE record
    /\ UNCHANGED <<feeVars, ixVars, raw_data, dst, rpcVars>>

GetReserve(fetched) ==
    /\ dst.state # "panicked"
    /\ decoded' = [via |-> "get_reserve", fetched |-> fetched,
                   result |-> get_reserve(IF fetched THEN Ok(raw_data) ELSE Err("ClientError"))]
    /\ record' = IF decoded'.result.ok THEN decoded'.result.val ELSE record
    /\ UNCHANGED <<feeVars, ixVars, raw_data, dst, rpcVars>>

PackIntoSlice(n, a) ==
    /\ dst.state # "panicked"
    /\ LET r == pack_into_slice(record, [bytes |-> Fill(n, 170), addr |-> a])
       IN  dst' = [state |-> IF r.panicked THEN "panicked" ELSE "packed",
                   self |-> record, slice |-> r.output]
    /\ UNCHANGED <<feeVars, ixVars, raw_data, decoded, record, rpcVars>>

NextCodec ==
    \/ UnpackFromSlice
    \/ \E fetched \in BOOLEAN : GetReserve(fetched)
    \/ \E n \in SliceLens, a \in Addresses : PackIntoSlice(n, a)

SpecCodec == InitCodec /\ [][NextCodec]_vars

(***************************************************************************)
(* lib.rs: the entry points over RPC.  RpcClient::get_account_data either  *)
(* returns the data of the account or fails with a ClientError; which, the *)
(* caller does not control.  The account holds a Reserve whose u64 fields  *)
(* fit the u64 of the fee arithmetic above, cut or extended to a length    *)
(* around RESERVE_LEN, in a buffer at an aligned or a misaligned address.  *)
(* The last two calls are kept.                                            *)
(***************************************************************************)
\* The number held by a u64.
IntFromU64(x) == x[1] + LimbBase * (x[2] + LimbBase * (x[3] + LimbBase * x[4]))

\* The fields of a decoded Reserve that flash_loan_fee and
\* available_liquidity read.
ReserveRead(r) ==
    [config |-> [fees |-> [flash_loan_fee_wad |->
                               IntFromU64(r.config.fees.flash_loan_fee_wad),
                           texture_fee_percentage |->
                               r.config.fees.texture_fee_percentage]],
     liquidity |-> [available_amount |-> IntFromU64(r.liquidity.available_amount)]]

ClientErrors == {"ClientErrorKind::Io", "ClientErrorKind::RpcError"}
FetchOutcomes == {"fetched"} \cup ClientErrors

\* RpcClient::get_account_data on an account holding data.
get_account_data(data, outcome) ==
    IF outcome = "fetched" THEN Ok(data) ELSE Err(outcome)

flash_loan_fee_via_rpc(account_data, borrow_amount) ==
    LET r == get_reserve(account_data)
    IN  IF ~r.ok THEN r ELSE flash_loan_fee(ReserveRead(r.val), borrow_amount)

available_liquidity_via_rpc(account_data) ==
    LET r == get_reserve(account_data)
    IN  IF ~r.ok THEN r ELSE Ok(available_liquidity(ReserveRead(r.val)))

\* The steps a call goes through: the fetch, the decode if the fetch
\* succeeded, the computation (if the entry point has one) if the decode
\* succeeded.
StepsOf(account_data, computation) ==
    IF ~account_data.ok THEN <<"get_account_data">>
    ELSE IF ~Pack_unpack(account_data.val).ok THEN <<"get_account_data", "unpack">>
    ELSE <<"get_account_data", "unpack">> \o computation

RpcFeeWads == {0, 5, 75}
RpcPercentages == {0, 20}
RpcAmounts == {0, 1, 2, 100}
RpcReserves ==
    { [SampleReserve EXCEPT !.version = v,
                            !.config.fees.flash_loan_fee_wad = U64FromInt(w),
                            !.config.fees.texture_fee_percentage = p,
                            !.liquidity.available_amount = U64FromInt(400)] :
        v \in {0, 1}, w \in RpcFeeWads, p \in RpcPercentages }
RpcAccounts ==
    { [bytes |-> Resized(Reserve_bytes(r), n), addr |-> a] :
        r \in RpcReserves, n \in SliceLens, a \in Addresses }

Recorded(c) == IF Len(calls) < 2 THEN Append(calls, c) ELSE <<calls[2], c>>

InitRpc ==
    /\ FeeIdle
    /\ IxIdle
    /\ raw_data \in RpcAccounts
    /\ decoded = NoDecode
    /\ record = Reserve_default
    /\ dst = NoOutput
    /\ calls = <<>>

GetReserveViaRpc(outcome) ==
    /\ LET account_data == get_account_data(raw_data, outcome)
       IN  calls' = Recorded([op |-> "get_reserve", account_data |-> account_data,
                              amount |-> 0,
                              steps |-> StepsOf(account_data, <<>>),
                              result |-> get_reserve(account_data)])
    /\ UNCHANGED <<feeVars, ixVars, codecVars>>

FlashLoanFeeViaRpc(outcome, borrow_amount) ==
    /\ LET account_data == get_account_data(raw_data, outcome)
       IN  calls' = Recorded([op |-> "flash_loan_fee_via_rpc",
                              account_data |-> account_data,
                              amount |-> borrow_amount,
                              steps |-> StepsOf(account_data, <<"flash_loan_fee">>),
                              result |-> flash_loan_fee_via_rpc(account_data, borrow_amount)])
    /\ UNCHANGED <<feeVars, ixVars, codecVars>>

AvailableLiquidityViaRpc(outcome) ==
    /\ LET account_data == get_account_data(raw_data, outcome)
       IN  calls' = Recorded([op |-> "available_liquidity_via_rpc",
                              account_data |-> account_data,
                              amount |-> 0,
                              steps |-> StepsOf(account_data, <<"available_liquidity">>),
                              result |-> available_liquidity_via_rpc(account_data)])
    /\ UNCHANGED <<feeVars, ixVars, codecVars>>

NextRpc ==
    \/ \E outcome \in FetchOutcomes : GetReserveViaRpc(outcome)
    \/ \E outcome \in FetchOutcomes, borrow_amount \in RpcAmounts :
          FlashLoanFeeViaRpc(outcome, borrow_amount)
    \/ \E outcome \in FetchOutcomes : AvailableLiquidityViaRpc(outcome)

SpecRpc == InitRpc /\ [][NextRpc]_vars

(***************************************************************************)
(* Properties of flash_loan_fee, checked under SpecFee.                    *)
(***************************************************************************)
flash_loan_fee_wad == reserve.config.fees.flash_loan_fee_wad
texture_fee_percentage == reserve.config.fees.texture_fee_percentage

\* The rate-derived fee amount * rate, rounded half up to whole units.
RateDerivedFee(amount) == (amount * flash_loan_fee_wad + HALF_WAD) \div WAD

\* C1: whenever flash_loan_fee returns Ok(fee), fee is strictly less than
\* borrow_amount.  Stated on the calls that charge a fee (nonzero rate and
\* nonzero amount); with amount 0 the result Ok(0) is the zero case of C2.
C1_FeeBelowAmount ==
    (last.called /\ last.result.ok /\ flash_loan_fee_wad > 0 /\ last.amount > 0)
        => last.result.val < last.amount

\* C2: flash_loan_fee returns Ok(0) for every amount when flash_loan_fee_wad
\* is 0, and Ok(0) for every fee configuration when the amount is 0.
C2_ZeroCases ==
    (last.called /\ (flash_loan_fee_wad = 0 \/ last.amount = 0))
        => last.result = Ok(0)

C2_Witness ==
    /\ prev.called /\ last.called
    /\ flash_loan_fee_wad = U64_MAX /\ texture_fee_percentage = U8_MAX
    /\ prev.amount = U64_MAX /\ ~prev.result.ok
    /\ last.amount = 0 /\ last.result = Ok(0)

\* C3: for a fixed configuration with nonzero flash_loan_fee_wad and two
\* amounts a <= b on which flash_loan_fee succeeds, fee(a) <= fee(b).
C3_Monotone ==
    (/\ prev.called /\ last.called
     /\ flash_loan_fee_wad # 0
     /\ prev.result.ok /\ last.result.ok
     /\ prev.amount <= last.amount)
        => prev.result.val <= last.result.val

C3_Witness ==
    /\ prev.called /\ last.called
    /\ flash_loan_fee_wad # 0
    /\ prev.result.ok /\ last.result.ok
    /\ prev.amount < last.amount
    /\ 2 < prev.result.val /\ prev.result.val < last.result.val

\* C4: with nonzero flash_loan_fee_wad and an amount > 0 whose rate-derived
\* fee rounds half up to less than the floor, the result is Ok(floor) when
\* floor < amount and BorrowTooSmall otherwise; the floor is 2 with a
\* nonzero texture_fee_percentage and 1 with texture_fee_percentage 0.
C4_MinimumFeeFloor ==
    LET floor == IF texture_fee_percentage # 0 THEN 2 ELSE 1
    IN  (/\ last.called
         /\ flash_loan_fee_wad # 0
         /\ last.amount > 0
         /\ RateDerivedFee(last.amount) < floor)
            => last.result = IF floor < last.amount
                                THEN Ok(floor)
                                ELSE Err("BorrowTooSmall")

C4_Witness ==
    /\ prev.called /\ last.called
    /\ flash_loan_fee_wad # 0 /\ texture_fee_percentage # 0
    /\ prev.amount = 2 /\ prev.result = Err("BorrowTooSmall")
    /\ last.amount = 3 /\ RateDerivedFee(3) < 2 /\ last.result = Ok(2)

(***************************************************************************)
(* Properties of the instruction builders, checked under SpecIx.           *)
(***************************************************************************)
\* Byte i (0 .. 7, least significant first) of a u64.
ByteOf(x, i) == (x[(i \div 2) + 1] \div (IF i % 2 = 0 THEN 1 ELSE 256)) % 256
AmountLE(x) == [i \in 1 .. 8 |-> ByteOf(x, i - 1)]

PubkeysOf(accounts) == [i \in 1 .. Len(accounts) |-> accounts[i].pubkey]
WritableOf(accounts) == [i \in 1 .. Len(accounts) |-> accounts[i].is_writable]

\* C5: pack gives [7] ++ amount LE for FlashBorrow (9 bytes), [8] ++ amount LE
\* for FlashRepay (9 bytes) and [5] ++ amount LE ++ [tag] for FlashLoan
\* (10 bytes); FlashBorrow of 1_000_000_000 is [7, 0, 0xCA, 0x9A, 0x3B, 0, 0,
\* 0, 0]; the data of a built instruction is the pack of its variant.
C5_PackBytes ==
    /\ ix.built = "flash_borrow" =>
          /\ ix.out.data = <<7>> \o AmountLE(ix.args.amount)
          /\ Len(ix.out.data) = 9
          /\ ix.out.data = pack(FlashBorrow(ix.args.amount))
          /\ ix.args.amount = U64FromInt(1000000000) =>
                ix.out.data = <<7, 0, 202, 154, 59, 0, 0, 0, 0>>
    /\ ix.built = "flash_repay" =>
          /\ ix.out.data = <<8>> \o AmountLE(ix.args.amount)
          /\ Len(ix.out.data) = 9
          /\ ix.out.data = pack(FlashRepay(ix.args.amount))
    /\ ix.built = "flash_loan" =>
          /\ ix.out.data = <<5>> \o AmountLE(ix.args.amount) \o <<ix.args.tag>>
          /\ Len(ix.out.data) = 10
          /\ ix.out.data = pack(FlashLoan(ix.args.amount, ix.args.tag))

C5_Witness ==
    /\ ix.built = "flash_borrow"
    /\ ix.args.amount = U64FromInt(1000000000)
    /\ ix.out.data = <<7, 0, 202, 154, 59, 0, 0, 0, 0>>

\* C6: flash_borrow emits 7 references (source W, destination W, reserve W,
\* lending market R, derived authority R, instructions sysvar R, token
\* program R), none a signer; flash_repay emits 8 (source W, destination W,
\* fee receiver W, reserve W, lending market R, user transfer authority R and
\* signer, instructions sysvar R, token program R), index 5 the only signer;
\* flash_loan emits 8 (source W, destination W, reserve W, fee receiver W,
\* lending market R, derived authority R, token program R, receiver program
\* R) followed by the caller's receiver accounts, unchanged and in order.
C6_AccountOrder ==
    LET a == ix.args
        acc == ix.out.accounts
        authority == find_program_address(a.lending_market, a.program_id)
    IN  /\ ix.built = "flash_borrow" =>
              /\ PubkeysOf(acc) = <<a.source, a.destination, a.reserve, a.lending_market,
                                    authority, sysvar_instructions_id, spl_token_id>>
              /\ WritableOf(acc) = <<TRUE, TRUE, TRUE, FALSE, FALSE, FALSE, FALSE>>
              /\ \A i \in 1 .. Len(acc) : ~acc[i].is_signer
        /\ ix.built = "flash_repay" =>
              /\ PubkeysOf(acc) = <<a.source, a.destination, a.fee_receiver, a.reserve,
                                    a.lending_market, a.authority,
                                    sysvar_instructions_id, spl_token_id>>
              /\ WritableOf(acc) = <<TRUE, TRUE, TRUE, TRUE, FALSE, FALSE, FALSE, FALSE>>
              /\ \A i \in 1 .. Len(acc) : acc[i].is_signer <=> i = 6
        /\ ix.built = "flash_loan" =>
              /\ Len(acc) = 8 + Len(a.receiver_accounts)
              /\ PubkeysOf(SubSeq(acc, 1, 8)) =
                    <<a.source, a.destination, a.reserve, a.fee_receiver,
                      a.lending_market, authority, spl_token_id, a.receiver_program>>
              /\ WritableOf(SubSeq(acc, 1, 8)) =
                    <<TRUE, TRUE, TRUE, TRUE, FALSE, FALSE, FALSE, FALSE>>
              /\ \A i \in 1 .. 8 : ~acc[i].is_signer
              /\ SubSeq(acc, 9, Len(acc)) = a.receiver_accounts

C6_Witness ==
    /\ ix.built = "flash_loan"
    /\ ix.args.reserve # ix.args.fee_receiver
    /\ ix.args.source # ix.args.destination
    /\ Len(ix.args.receiver_accounts) = 2
    /\ ix.args.receiver_accounts[1].is_signer /\ ~ix.args.receiver_accounts[2].is_signer
    /\ ix.args.receiver_accounts[1].pubkey # ix.args.receiver_accounts[2].pubkey
    /\ Len(ix.out.accounts) = 10
    /\ ix.out.accounts[9] = ix.args.receiver_accounts[1]
    /\ ix.out.accounts[10] = ix.args.receiver_accounts[2]

(***************************************************************************)
(* Properties of the Reserve codec, checked under SpecCodec.               *)
(***************************************************************************)
Aligned(s) == s.addr % 8 = 0
VersionByte(s) == s.bytes[1]

\* The offsets (from 0) of the reserved padding in the 360-byte record: after
\* version, after texture_fee_percentage, the two config paddings and the
\* trailing future padding.
PaddingOffsets == (1 .. 7) \cup (209 .. 215) \cup (256 .. 319) \cup (320 .. 359)
PaddingFieldsZero(r) ==
    /\ r._padding = Fill(7, 0)
    /\ r.config.fees._padding = Fill(7, 0)
    /\ r.config._future_padding1 = Fill(32, 0)
    /\ r.config._future_padding2 = Fill(32, 0)
    /\ \A i \in 1 .. 5 : r._future_padding[i] = <<0, 0, 0, 0>>

\* C7: decoding a slice whose length differs from LEN (shorter or longer)
\* fails with an error whatever its content, and yields no Reserve.
C7_LengthMismatchFails ==
    (decoded.via # "none" /\ decoded.fetched /\ Len(raw_data.bytes) # RESERVE_LEN)
        => /\ ~decoded.result.ok
           /\ decoded.result.err = IF decoded.via = "get_reserve"
                                      THEN "DeserializationError"
                                      ELSE "InvalidAccountData"
           /\ record = Reserve_default

C7_Witness ==
    /\ decoded.via = "unpack_from_slice"
    /\ Len(raw_data.bytes) = 361
    /\ Aligned(raw_data)
    /\ SubSeq(raw_data.bytes, 1, 360) = Pattern
    /\ decoded.result = Err("InvalidAccountData")

\* C8 as stated: every slice of exactly LEN bytes decodes successfully,
\* whatever its content and placement, a version of 0 included, on
\* unpack_from_slice and on the path get_reserve uses.
C8_EveryLenSliceDecodes ==
    (decoded.via # "none" /\ decoded.fetched /\ Len(raw_data.bytes) = RESERVE_LEN)
        => decoded.result.ok

\* C8 amended: on a LEN-byte slice unpack_from_slice succeeds exactly when
\* the slice starts at a multiple of 8, whatever the content, a version of
\* 0 included, and fails with InvalidAccountData otherwise; get_reserve
\* decodes with Pack::unpack and succeeds exactly when the slice is aligned
\* and its version is not 0, failing with DeserializationError otherwise.
C8_DecodeChecks ==
    (decoded.via # "none" /\ decoded.fetched /\ Len(raw_data.bytes) = RESERVE_LEN)
        => /\ decoded.via = "unpack_from_slice" =>
                 /\ decoded.result.ok <=> Aligned(raw_data)
                 /\ ~decoded.result.ok => decoded.result.err = "InvalidAccountData"
           /\ decoded.via = "get_reserve" =>
                 /\ decoded.result.ok <=> (Aligned(raw_data) /\ VersionByte(raw_data) # 0)
                 /\ ~decoded.result.ok => decoded.result.err = "DeserializationError"
           /\ decoded.result.ok =>
                 /\ decoded.result.val.version = VersionByte(raw_data)
                 /\ Reserve_bytes(decoded.result.val) = raw_data.bytes

C8_Witness ==
    /\ decoded.via = "unpack_from_slice"
    /\ Len(raw_data.bytes) = 360
    /\ Aligned(raw_data)
    /\ VersionByte(raw_data) = 0
    /\ raw_data.bytes[2] # 0
    /\ decoded.result.ok
    /\ ~is_initialized(decoded.result.val)
    /\ record = decoded.result.val

\* C9: for every Reserve r, encoding r into a LEN-byte slice and decoding
\* that slice yields a Reserve equal to r in every field.
C9_RoundTrip ==
    (dst.state # "none" /\ Len(dst.slice.bytes) = RESERVE_LEN)
        => /\ dst.state = "packed"
           /\ unpack_from_slice(dst.slice).ok
           /\ unpack_from_slice(dst.slice).val = dst.self

C11_NoPanic ==
    /\ dst.state # "panicked"
    /\ decoded.via # "none" =>
          \/ decoded.result.ok
          \/ decoded.result.err \in {"InvalidAccountData", "RpcError", "DeserializationError"}

(***************************************************************************)
(* Properties of the entry points over RPC, checked under SpecRpc.         *)
(***************************************************************************)
\* What a call computes from a decoded Reserve.
Computed(c, r) ==
    IF c.op = "get_reserve" THEN Ok(r)
    ELSE IF c.op = "flash_loan_fee_via_rpc"
    THEN flash_loan_fee(ReserveRead(r), c.amount)
    ELSE Ok(IntFromU64(r.liquidity.available_amount))

\* The steps run in the order fetch, decode, compute and the error kinds are
\* kept apart: RpcError exactly when the fetch fails, DeserializationError
\* exactly when the fetch succeeds and Reserve::unpack of the data fails,
\* otherwise the result computed from the decoded Reserve, so that
\* BorrowTooSmall and MathOverflow come only after a fetch and a decode.
OrderAndKinds(c) ==
    LET fetched == c.account_data.ok
        unpacked == Pack_unpack(raw_data)
    IN  /\ c.steps[1] = "get_account_data"
        /\ Len(c.steps) > 1 <=> fetched
        /\ Len(c.steps) > 1 => c.steps[2] = "unpack"
        /\ Len(c.steps) > 2 <=> (fetched /\ unpacked.ok /\ c.op # "get_reserve")
        /\ Len(c.steps) <= 3
        /\ c.result.err = "RpcError" <=> ~fetched
        /\ c.result.err = "DeserializationError" <=> (fetched /\ ~unpacked.ok)
        /\ (fetched /\ unpacked.ok) => c.result = Computed(c, unpacked.val)
        /\ c.result.err \in {"BorrowTooSmall", "MathOverflow"} =>
              /\ c.steps = <<"get_account_data", "unpack", "flash_loan_fee">>
              /\ c.result = flash_loan_fee(ReserveRead(unpacked.val), c.amount)

\* The access failure reaches the caller unmodified: of two calls of one
\* entry point whose fetches fail with different failures, the caller gets
\* different results.
AccessFailureUnmodified(c, d) ==
    (/\ c.op = d.op
     /\ ~c.account_data.ok /\ ~d.account_data.ok
     /\ c.account_data # d.account_data)
        => c.result # d.result

\* C12: in flash_loan_fee_via_rpc, get_reserve and available_liquidity_via_rpc
\* the steps run in the order fetch, decode, compute; the result is RpcError
\* exactly when the fetch fails, DeserializationError exactly when the fetch
\* succeeds and the decode fails, otherwise the result of flash_loan_fee on
\* the decoded reserve; and the access failure is surfaced unmodified.
C12_ViaRpcErrors ==
    /\ \A i \in DOMAIN calls : OrderAndKinds(calls[i])
    /\ \A i, j \in DOMAIN calls : AccessFailureUnmodified(calls[i], calls[j])

====
